---- MODULE Spec2Model ----
(***************************************************************************)
(* RuntimeInfoHook (mmengine/hooks/runtime_info_hook.py): the hook that    *)
(* copies runtime information of the runner into the message hub.          *)
(*                                                                         *)
(* The message hub is the pair of dictionaries `info` (key -> value) and   *)
(* `scalars` (key -> history of (value, step) entries).  Each callback of  *)
(* the hook is a function from (hub, runner, payload) to (hub, error): a   *)
(* Python exception ends the callback and keeps the writes made so far.    *)
(***************************************************************************)
EXTENDS Integers, Sequences, FiniteSets, TLC

VARIABLES
    runner,     \* the runner the callbacks receive
    info,       \* message hub: runtime info, key -> value
    scalars,    \* message hub: log scalars, key -> sequence of entries
    last,       \* the callback that ran last, its payload and its outcome;
                \* repeat: the callback before it was the same one
    hooks,      \* the runner's registered hooks, in calling order
    pending,    \* the call_hook in progress: its point, the hooks still to call
    seen,       \* what the observer hook read from the hub in its callback
    threads,    \* per thread: the update_info calls it has still to make
    completed,  \* key -> value of the update_info call completed last on it
    appended,   \* key -> the entries of the completed update_scalar calls
    phase       \* where the run is in its lifecycle, and its iterations so far

hvars == <<hooks, pending, seen, phase>>
tvars == <<threads, completed, appended>>
vars == <<runner, info, scalars, last, hooks, pending, seen, threads, completed,
          appended, phase>>

(***************************************************************************)
(* Bounds                                                                  *)
(***************************************************************************)
MaxEpoch == 1       \* runner.epoch ranges over 0..MaxEpoch
MaxIter == 1        \* runner.iter ranges over 0..MaxIter
MaxScalars == 2     \* total number of scalar entries kept in the hub

Names == {"lr", "loss"}         \* group names, outputs keys, metric names
Values == {1, 2}                \* scalar values (learning rates, losses)
Seeds == {42}
Cfgs == {"model=resnet"}
ExperimentNames == {"exp1"}
Metainfos == {"classes"}

(***************************************************************************)
(* Python values                                                           *)
(***************************************************************************)
\* Optional[x]: None is the empty tuple, a present value x is <<x>>.
None == <<>>

RECURSIVE SeqsUpTo(_, _)
SeqsUpTo(S, n) ==
    IF n = 0 THEN { <<>> }
    ELSE LET shorter == SeqsUpTo(S, n - 1)
         IN  shorter \cup { Append(s, x) : s \in { t \in shorter : Len(t) = n - 1 }, x \in S }

Keys(items) == { items[i][1] : i \in 1..Len(items) }

\* The items of a dict, in insertion order: pairs <<key, value>>, keys distinct.
DictItems(K, V, n) ==
    { s \in SeqsUpTo(K \X V, n) : Cardinality(Keys(s)) = Len(s) }


(***************************************************************************)
(* The message hub (runner.message_hub).  A hub value is a record          *)
(*   info    : key -> value                       (overwritten)            *)
(*   scalars : key -> sequence of [value, step]   (appended)               *)
(*   calls   : the hub methods called so far by the running callback,      *)
(*             each with the key -> value pairs it was given               *)
(***************************************************************************)
Call(op, args) == [op |-> op, args |-> args]

\* update_info that keeps the value a key already has (dict.setdefault).
update_info_setdefault(hub, key, value) ==
    [hub EXCEPT
        !.info = [k \in DOMAIN hub.info \cup {key} |->
                    IF k \in DOMAIN hub.info THEN hub.info[k] ELSE value],
        !.calls = Append(@, Call("update_info", [k \in {key} |-> value]))]

\* update_info(key, value): upsert, overwriting any prior value of the key.
update_info(hub, key, value) ==
    [hub EXCEPT
        !.info = [k \in DOMAIN hub.info \cup {key} |->
                    IF k = key THEN value ELSE hub.info[k]],
        !.calls = Append(@, Call("update_info", [k \in {key} |-> value]))]

\* update_info_dict(values): every key of the dict upserted in one call.
update_info_dict(hub, values) ==
    [hub EXCEPT
        !.info = [k \in DOMAIN hub.info \cup DOMAIN values |->
                    IF k \in DOMAIN values THEN values[k] ELSE hub.info[k]],
        !.calls = Append(@, Call("update_info_dict", values))]

\* update_scalar that keeps only the latest entry of a key.
update_scalar_latest(hub, key, value, step) ==
    [hub EXCEPT
        !.scalars = [k \in DOMAIN hub.scalars \cup {key} |->
                        IF k = key THEN << [value |-> value, step |-> step] >>
                        ELSE hub.scalars[k]],
        !.calls = Append(@, Call("update_scalar", [k \in {key} |-> value]))]

\* update_scalar(key, value, step=None): append (value, step) to the history.
update_scalar(hub, key, value, step) ==
    [hub EXCEPT
        !.scalars = [k \in DOMAIN hub.scalars \cup {key} |->
                        IF k = key
                        THEN Append(IF key \in DOMAIN hub.scalars
                                    THEN hub.scalars[key] ELSE <<>>,
                                    [value |-> value, step |-> step])
                        ELSE hub.scalars[k]],
        !.calls = Append(@, Call("update_scalar", [k \in {key} |-> value]))]

\* get_info that answers None for a key never written (dict.get).
get_info_default(I, key) ==
    IF key \in DOMAIN I THEN [err |-> "none", value |-> <<I[key]>>]
    ELSE [err |-> "none", value |-> None]

\* get_info(key) / get_scalar(key): the stored value, NotFoundError if the
\* key was never written.
get_info(I, key) ==
    IF key \in DOMAIN I THEN [err |-> "none", value |-> <<I[key]>>]
    ELSE [err |-> "NotFoundError", value |-> None]

get_scalar(S, key) ==
    IF key \in DOMAIN S THEN [err |-> "none", value |-> S[key]]
    ELSE [err |-> "NotFoundError", value |-> <<>>]

(***************************************************************************)
(* RuntimeInfoHook                                                         *)
(***************************************************************************)
priority == "VERY_HIGH"

mmengine_version == "0.1.0"
GitHashes == {"a1b2c3d"}        \* what get_git_hash() can return

\* A callback's outcome: the hub it leaves and the exception it raised.
Return(hub) == [hub |-> hub, err |-> "none"]
Raise(hub, e) == [hub |-> hub, err |-> e]

\* hasattr(obj, name) and obj.name on an object given as attribute -> value.
hasattr(obj, name) == name \in DOMAIN obj

\* before_run writing its four entries in two batches.
before_run_two_batches(hub, r, git_hash) ==
    LET h1 == update_info_dict(hub, [k \in {"cfg", "seed"} |->
                                        IF k = "cfg" THEN r.cfg ELSE r.seed])
    IN  Return(update_info_dict(h1,
                   [k \in {"experiment_name", "mmengine_version"} |->
                       IF k = "experiment_name" THEN r.experiment_name
                       ELSE mmengine_version \o git_hash]))

\* before_run writing its four entries with one update_info call each.
before_run_one_by_one(hub, r, git_hash) ==
    LET h1 == update_info(hub, "cfg", r.cfg)
        h2 == update_info(h1, "seed", r.seed)
        h3 == update_info(h2, "experiment_name", r.experiment_name)
    IN  Return(update_info(h3, "mmengine_version", mmengine_version \o git_hash))

before_run(hub, r, git_hash) ==
    LET metainfo == [k \in {"cfg", "seed", "experiment_name", "mmengine_version"} |->
                        CASE k = "cfg" -> r.cfg
                          [] k = "seed" -> r.seed
                          [] k = "experiment_name" -> r.experiment_name
                          [] k = "mmengine_version" -> mmengine_version \o git_hash]
    IN  Return(update_info_dict(hub, metainfo))

\* before_train publishing the counters of a fresh run, not the resumed ones.
before_train_fresh(hub, r) ==
    LET h1 == update_info(hub, "epoch", 0)
        h2 == update_info(h1, "iter", 0)
        h3 == update_info(h2, "max_epochs", r.max_epochs)
        h4 == update_info(h3, "max_iters", r.max_iters)
    IN  IF hasattr(r.dataset, "dataset_meta")
        THEN IF hasattr(r.dataset, "metainfo")
             THEN Return(update_info(h4, "dataset_meta", r.dataset["metainfo"]))
             ELSE Raise(h4, "AttributeError")
        ELSE Return(h4)

before_train(hub, r) ==
    LET h1 == update_info(hub, "epoch", r.epoch)
        h2 == update_info(h1, "iter", r.iter)
        h3 == update_info(h2, "max_epochs", r.max_epochs)
        h4 == update_info(h3, "max_iters", r.max_iters)
    IN  IF hasattr(r.dataset, "dataset_meta")
        THEN IF hasattr(r.dataset, "metainfo")
             THEN Return(update_info(h4, "dataset_meta", r.dataset["metainfo"]))
             ELSE Raise(h4, "AttributeError")
        ELSE Return(h4)

\* before_train_epoch replacing the hub's info by a dict of its own.
before_train_epoch_reset(hub, r) ==
    Return([update_info(hub, "epoch", r.epoch) EXCEPT
               !.info = [k \in {"epoch"} |-> r.epoch]])

\* before_train_epoch counting the epochs itself once the entry exists.
before_train_epoch_count(hub, r) ==
    Return(update_info(hub, "epoch",
                       IF "epoch" \in DOMAIN hub.info THEN hub.info["epoch"] + 1
                       ELSE r.epoch))

before_train_epoch(hub, r) ==
    Return(update_info(hub, "epoch", r.epoch))

\* The loop of before_train_iter undoing its appends when a later group fails.
RECURSIVE lr_loop_rollback(_, _)
lr_loop_rollback(hub, items) ==
    IF items = <<>> THEN Return(hub)
    ELSE LET name == Head(items)[1]
             lr == Head(items)[2]
         IN  IF lr = <<>> THEN Raise(hub, "IndexError")
             ELSE LET res == lr_loop_rollback(
                                 update_scalar(hub, "train/" \o name, lr[1], None),
                                 Tail(items))
                  IN  IF res.err = "none" THEN res ELSE Raise(hub, res.err)

\* The loop of before_train_iter logging lr[-1] in place of lr[0].
RECURSIVE lr_loop_last(_, _)
lr_loop_last(hub, items) ==
    IF items = <<>> THEN Return(hub)
    ELSE LET name == Head(items)[1]
             lr == Head(items)[2]
         IN  IF Len(lr) = 0 THEN Raise(hub, "IndexError")
             ELSE lr_loop_last(update_scalar(hub, "train/" \o name, lr[Len(lr)], None),
                               Tail(items))

\* for name, lr in lr_dict.items(): update_scalar(f'train/{name}', lr[0])
RECURSIVE lr_loop(_, _)
lr_loop(hub, items) ==
    IF items = <<>> THEN Return(hub)
    ELSE LET name == Head(items)[1]
             lr == Head(items)[2]
         IN  IF Len(lr) = 0 THEN Raise(hub, "IndexError")
             ELSE lr_loop(update_scalar(hub, "train/" \o name, lr[1], None),
                          Tail(items))

\* before_train_iter asserting the type of lr_dict before it publishes iter.
before_train_iter_check_first(hub, r, lr_dict) ==
    IF lr_dict.type # "dict" THEN Raise(hub, "AssertionError")
    ELSE lr_loop(update_info(hub, "iter", r.iter), lr_dict.items)

\* before_train_iter without the isinstance assertion: iterating a list's
\* items() fails after nothing was logged, and no assertion fires.
before_train_iter_noassert(hub, r, lr_dict) ==
    LET h1 == update_info(hub, "iter", r.iter)
    IN  IF lr_dict.type # "dict" THEN Raise(h1, "AttributeError")
        ELSE lr_loop(h1, lr_dict.items)

before_train_iter(hub, r, lr_dict) ==
    LET h1 == update_info(hub, "iter", r.iter)
    IN  IF lr_dict.type # "dict" THEN Raise(h1, "AssertionError")
        ELSE lr_loop(h1, lr_dict.items)

\* The loop of after_train_iter leaving out the keys that have a history.
RECURSIVE train_loop_new_keys(_, _)
train_loop_new_keys(hub, items) ==
    IF items = <<>> THEN Return(hub)
    ELSE LET key == "train/" \o Head(items)[1]
         IN  train_loop_new_keys(
                 IF key \in DOMAIN hub.scalars THEN hub
                 ELSE update_scalar(hub, key, Head(items)[2], None),
                 Tail(items))

\* The loop of after_train_iter logging under the bare key.
RECURSIVE train_loop_bare(_, _)
train_loop_bare(hub, items) ==
    IF items = <<>> THEN Return(hub)
    ELSE train_loop_bare(update_scalar(hub, Head(items)[1], Head(items)[2], None),
                         Tail(items))

\* for key, value in outputs.items(): update_scalar(f'train/{key}', value)
RECURSIVE train_loop(_, _)
train_loop(hub, items) ==
    IF items = <<>> THEN Return(hub)
    ELSE train_loop(update_scalar(hub, "train/" \o Head(items)[1], Head(items)[2], None),
                    Tail(items))

\* after_train_iter publishing the iteration that comes next as well.
after_train_iter_next(hub, r, outputs) ==
    LET h1 == update_info(hub, "iter", r.iter + 1)
    IN  IF outputs.type # "None" THEN train_loop(h1, outputs.items)
        ELSE Return(h1)

after_train_iter(hub, r, outputs) ==
    IF outputs.type # "None" THEN train_loop(hub, outputs.items)
    ELSE Return(hub)

\* for key, value in metrics.items(): update_scalar(f'val/{key}', value)
RECURSIVE val_loop(_, _)
val_loop(hub, items) ==
    IF items = <<>> THEN Return(hub)
    ELSE val_loop(update_scalar(hub, "val/" \o Head(items)[1], Head(items)[2], None),
                  Tail(items))

after_val_epoch(hub, r, metrics) ==
    IF metrics.type # "None" THEN val_loop(hub, metrics.items)
    ELSE Return(hub)

\* The loop of after_test_epoch logging under the validation prefix.
RECURSIVE test_loop_val(_, _)
test_loop_val(hub, items) ==
    IF items = <<>> THEN Return(hub)
    ELSE test_loop_val(update_scalar(hub, "val/" \o Head(items)[1], Head(items)[2], None),
                       Tail(items))

\* for key, value in metrics.items(): update_scalar(f'test/{key}', value)
RECURSIVE test_loop(_, _)
test_loop(hub, items) ==
    IF items = <<>> THEN Return(hub)
    ELSE test_loop(update_scalar(hub, "test/" \o Head(items)[1], Head(items)[2], None),
                   Tail(items))

\* after_test_epoch without the `is not None` test: None has no items().
after_test_epoch_nocheck(hub, r, metrics) ==
    IF metrics.type = "None" THEN Raise(hub, "AttributeError")
    ELSE test_loop(hub, metrics.items)

after_test_epoch(hub, r, metrics) ==
    IF metrics.type # "None" THEN test_loop(hub, metrics.items)
    ELSE Return(hub)

(***************************************************************************)
(* Inputs of the callbacks                                                 *)
(***************************************************************************)
\* runner.train_dataloader.dataset as attribute -> value: a dataset may or
\* may not have the attributes `dataset_meta` and `metainfo`.
Datasets ==
    UNION { [A -> Metainfos] : A \in SUBSET {"dataset_meta", "metainfo"} }

NoDataset == << >>

Runners ==
    [epoch : 0..MaxEpoch, iter : 0..MaxIter,
     max_epochs : {MaxEpoch}, max_iters : {MaxIter},
     seed : Seeds, experiment_name : ExperimentNames, cfg : Cfgs]

\* What optim_wrapper.get_lr() returns: a dict name -> list of learning
\* rates, or (for a wrong optimizer constructor) something that is no dict.
NoDict == [type |-> "None", items |-> <<>>]
LrLists == { <<>>, <<1>>, <<2, 1>> }
LrDicts ==
    { [type |-> "dict", items |-> it] :
        it \in DictItems(Names, LrLists, Cardinality(Names)) }
    \cup { [type |-> "list", items |-> <<>>] }

\* Optional[dict] of outputs / metrics: a dict key -> value, or None.
OptDicts ==
    { [type |-> "dict", items |-> it] :
        it \in DictItems(Names, Values, Cardinality(Names)) }
    \cup { NoDict }

(***************************************************************************)
(* The runner calling the hook                                             *)
(***************************************************************************)
Hub == [info |-> info, scalars |-> scalars, calls |-> <<>>]

RECURSIVE SumLen(_, _)
SumLen(S, ks) ==
    IF ks = {} THEN 0
    ELSE LET k == CHOOSE x \in ks : TRUE
         IN  Len(S[k]) + SumLen(S, ks \ {k})

NumScalars(S) == SumLen(S, DOMAIN S)

\* The hub after the callback, whether it returned or raised.
Do(name, res, lr_dict, payload, dataset) ==
    /\ NumScalars(res.hub.scalars) <= MaxScalars
    /\ info' = res.hub.info
    /\ scalars' = res.hub.scalars
    /\ last' = [name |-> name, err |-> res.err, calls |-> res.hub.calls,
                lr_dict |-> lr_dict, payload |-> payload, dataset |-> dataset,
                repeat |-> (last.name = name)]
    /\ UNCHANGED runner

BeforeRun ==
    \E git_hash \in GitHashes :
        Do("before_run", before_run(Hub, runner, git_hash), NoDict, NoDict, NoDataset)

\* The runner whose train dataloader holds the given dataset.
WithDataset(r, dataset) == [dataset |-> dataset] @@ r

BeforeTrain ==
    \E dataset \in Datasets :
        Do("before_train", before_train(Hub, WithDataset(runner, dataset)),
           NoDict, NoDict, dataset)

BeforeTrainEpoch ==
    Do("before_train_epoch", before_train_epoch(Hub, runner), NoDict, NoDict, NoDataset)

BeforeTrainIter ==
    \E lr_dict \in LrDicts :
        Do("before_train_iter", before_train_iter(Hub, runner, lr_dict),
           lr_dict, NoDict, NoDataset)

AfterTrainIter ==
    \E outputs \in OptDicts :
        Do("after_train_iter", after_train_iter(Hub, runner, outputs),
           NoDict, outputs, NoDataset)

AfterValEpoch ==
    \E metrics \in OptDicts :
        Do("after_val_epoch", after_val_epoch(Hub, runner, metrics),
           NoDict, metrics, NoDataset)

AfterTestEpoch ==
    \E metrics \in OptDicts :
        Do("after_test_epoch", after_test_epoch(Hub, runner, metrics),
           NoDict, metrics, NoDataset)

\* The training loop advances the runner's counters between callbacks.
Idle(name) ==
    [name |-> name, err |-> "none", calls |-> <<>>,
     lr_dict |-> NoDict, payload |-> NoDict, dataset |-> NoDataset,
     repeat |-> FALSE]

NextEpoch ==
    /\ runner.epoch < MaxEpoch
    /\ runner' = [runner EXCEPT !.epoch = @ + 1]
    /\ last' = Idle("train_loop")
    /\ UNCHANGED <<info, scalars>>

NextIter ==
    /\ runner.iter < MaxIter
    /\ runner' = [runner EXCEPT !.iter = @ + 1]
    /\ last' = Idle("train_loop")
    /\ UNCHANGED <<info, scalars>>

(***************************************************************************)
(* Hook registration and dispatch (Runner.register_hook, Runner.call_hook) *)
(***************************************************************************)
\* The priority levels, highest first: a hook of an earlier level is called
\* before a hook of a later one.
PriorityLevels ==
    << "HIGHEST", "VERY_HIGH", "HIGH", "ABOVE_NORMAL", "NORMAL",
       "BELOW_NORMAL", "LOW", "VERY_LOW", "LOWEST" >>

get_priority(p) == CHOOSE i \in 1..Len(PriorityLevels) : PriorityLevels[i] = p

RuntimeInfoHook == [name |-> "RuntimeInfoHook", priority |-> priority]
ObserverPriorities == {"HIGHEST", "VERY_HIGH", "NORMAL"}
Observer(p) == [name |-> "Observer", priority |-> p]

\* register_hook keeping the order of registration, whatever the priorities.
register_hook_append(hs, hook) == Append(hs, hook)

\* register_hook: the hook goes behind the last registered hook whose priority
\* is at least as high as its own.
register_hook(hs, hook) ==
    LET ahead == { i \in 1..Len(hs) :
                     get_priority(hs[i].priority) <= get_priority(hook.priority) }
        pos == IF ahead = {} THEN 0 ELSE CHOOSE i \in ahead : \A j \in ahead : j <= i
    IN  SubSeq(hs, 1, pos) \o <<hook>> \o SubSeq(hs, pos + 1, Len(hs))

NoCall == [point |-> "none", queue |-> <<>>]
NothingSeen == [point |-> "none", epoch |-> get_info(<< >>, "epoch"),
                iter |-> get_info(<< >>, "iter"),
                max_epochs |-> get_info(<< >>, "max_epochs"),
                max_iters |-> get_info(<< >>, "max_iters")]

Points == {"before_train", "before_train_epoch", "before_train_iter"}

\* call_hook(point): every registered hook's callback for the point is called,
\* in the order of the hook list.
CallHook ==
    /\ pending = NoCall
    /\ \E point \in Points :
          pending' = [point |-> point, queue |-> hooks]
    /\ UNCHANGED <<runner, info, scalars, last, hooks, seen, phase, tvars>>

\* The next hook of the call is the RuntimeInfoHook; an exception it raises
\* leaves call_hook and ends the run.
CallRuntimeInfoHook ==
    /\ pending.queue # <<>>
    /\ Head(pending.queue).name = "RuntimeInfoHook"
    /\ \/ pending.point = "before_train" /\ BeforeTrain
       \/ pending.point = "before_train_epoch" /\ BeforeTrainEpoch
       \/ pending.point = "before_train_iter" /\ BeforeTrainIter
    /\ pending' = IF last'.err = "none"
                  THEN [pending EXCEPT !.queue = Tail(@)]
                  ELSE [point |-> "aborted", queue |-> <<>>]
    /\ UNCHANGED <<hooks, seen, phase, tvars>>

\* The next hook of the call is the observer: its callback reads the
\* training state from the message hub.
CallObserver ==
    /\ pending.queue # <<>>
    /\ Head(pending.queue).name = "Observer"
    /\ seen' = [point |-> pending.point,
                epoch |-> get_info(info, "epoch"),
                iter |-> get_info(info, "iter"),
                max_epochs |-> get_info(info, "max_epochs"),
                max_iters |-> get_info(info, "max_iters")]
    /\ pending' = [pending EXCEPT !.queue = Tail(@)]
    /\ UNCHANGED <<runner, info, scalars, last, hooks, phase, tvars>>

\* All hooks of the point were called: the training loop goes on.
EndCallHook ==
    /\ pending.point \in Points
    /\ pending.queue = <<>>
    /\ pending' = NoCall
    /\ UNCHANGED <<runner, info, scalars, last, hooks, seen, phase, tvars>>

(***************************************************************************)
(* Threads writing runtime info: the runner's thread inside a callback of  *)
(* the hook, and another thread of the process calling update_info.        *)
(* A call completes in one step of the hub; calls of the two threads       *)
(* overlap between their begin and their completion.                       *)
(***************************************************************************)
Threads == {"runner", "other"}
NoThreads == [t \in Threads |-> [todo |-> <<>>, busy |-> FALSE]]

\* The lifecycle of a run before its first phase: no iteration completed, no
\* learning-rate groups and no outputs keys seen yet, no counter published.
NoRun ==
    [at |-> "start", iters |-> 0, groups |-> {}, keys |-> {}, uniform |-> TRUE,
     iter_at |-> None, epoch_at |-> None]

EmptyHub == [info |-> << >>, scalars |-> << >>, calls |-> <<>>]
OtherKeys == {"eta", "iter"}

\* The runner's thread enters before_train or before_train_epoch: the
\* update_info calls of the callback, in program order.
EnterCallback ==
    /\ threads["runner"].todo = <<>>
    /\ \E res \in { before_train(EmptyHub, WithDataset(runner, ds)) : ds \in Datasets }
                  \cup { before_train_epoch(EmptyHub, runner) } :
          threads' = [threads EXCEPT !["runner"].todo = res.hub.calls]
    /\ UNCHANGED <<runner, info, scalars, last, hvars, completed, appended>>

\* The other thread calls update_info(key, value).
OtherCall ==
    /\ threads["other"].todo = <<>>
    /\ \E key \in OtherKeys, value \in Values :
          threads' = [threads EXCEPT
                        !["other"].todo = << Call("update_info", [k \in {key} |-> value]) >>]
    /\ UNCHANGED <<runner, info, scalars, last, hvars, completed, appended>>

\* A thread begins its next update_info call.
BeginUpdate(t) ==
    /\ threads[t].todo # <<>>
    /\ ~threads[t].busy
    /\ threads' = [threads EXCEPT ![t].busy = TRUE]
    /\ UNCHANGED <<runner, info, scalars, last, hvars, completed, appended>>

\* The update_info call of a thread completes.
CompleteUpdate(t) ==
    /\ threads[t].busy
    /\ Head(threads[t].todo).op = "update_info"
    /\ LET args == Head(threads[t].todo).args
           key == CHOOSE k \in DOMAIN args : TRUE
       IN  /\ info' = update_info(Hub, key, args[key]).info
           /\ completed' = [k \in DOMAIN completed \cup {key} |->
                              IF k = key THEN args[key] ELSE completed[k]]
    /\ threads' = [threads EXCEPT ![t] = [todo |-> Tail(@.todo), busy |-> FALSE]]
    /\ UNCHANGED <<runner, scalars, last, hvars, appended>>

\* The runner's thread enters before_train_iter or after_train_iter: the
\* hub calls the callback makes, in program order.
EnterLogging ==
    /\ threads["runner"].todo = <<>>
    /\ \E res \in { before_train_iter(EmptyHub, runner, d) : d \in LrDicts }
                  \cup { after_train_iter(EmptyHub, runner, o) : o \in OptDicts } :
          /\ res.hub.calls # <<>>
          /\ threads' = [threads EXCEPT !["runner"].todo = res.hub.calls]
    /\ UNCHANGED <<runner, info, scalars, last, hvars, completed, appended>>

\* The runner's thread enters before_run: its one update_info_dict call.
EnterBeforeRun ==
    /\ threads["runner"].todo = <<>>
    /\ \E git_hash \in GitHashes :
          LET calls == before_run(EmptyHub, runner, git_hash).hub.calls
          IN  /\ threads' = [threads EXCEPT !["runner"].todo = calls]
              /\ last' = [Idle("before_run") EXCEPT !.calls = calls]
    /\ UNCHANGED <<runner, info, scalars, hvars, completed, appended>>

\* The other thread calls update_scalar(key, value, step).
OtherScalarKeys == {"train/lr"}
Steps == {None, <<7>>}

OtherScalar ==
    /\ threads["other"].todo = <<>>
    /\ \E key \in OtherScalarKeys, value \in Values, step \in Steps :
          threads' = [threads EXCEPT
                        !["other"].todo =
                            << [op |-> "update_scalar", args |-> [k \in {key} |-> value],
                                step |-> step] >>]
    /\ UNCHANGED <<runner, info, scalars, last, hvars, completed, appended>>

\* The step a call passes: the hook's calls leave it at its default, None.
StepOf(call) == IF "step" \in DOMAIN call THEN call.step ELSE None

\* The thread's current call is done.
Done(t) == [threads EXCEPT ![t] = [todo |-> Tail(@.todo), busy |-> FALSE]]

\* The update_scalar call of a thread completes.
CompleteScalar(t) ==
    /\ threads[t].busy
    /\ Head(threads[t].todo).op = "update_scalar"
    /\ LET call == Head(threads[t].todo)
           key == CHOOSE k \in DOMAIN call.args : TRUE
           entry == [value |-> call.args[key], step |-> StepOf(call)]
       IN  /\ scalars' = update_scalar(Hub, key, call.args[key], StepOf(call)).scalars
           /\ NumScalars(scalars') <= MaxScalars
           /\ appended' = [k \in DOMAIN appended \cup {key} |->
                             IF k # key THEN appended[k]
                             ELSE IF key \in DOMAIN appended
                                  THEN Append(appended[key], entry)
                                  ELSE <<entry>>]
    /\ threads' = Done(t)
    /\ UNCHANGED <<runner, info, last, hvars, completed>>

\* The update_info_dict call of a thread completes as one atomic batch.
CompleteDict(t) ==
    /\ threads[t].busy
    /\ Head(threads[t].todo).op = "update_info_dict"
    /\ LET args == Head(threads[t].todo).args
       IN  /\ info' = update_info_dict(Hub, args).info
           /\ completed' = [k \in DOMAIN completed \cup DOMAIN args |->
                              IF k \in DOMAIN args THEN args[k] ELSE completed[k]]
    /\ threads' = Done(t)
    /\ UNCHANGED <<runner, scalars, last, hvars, appended>>

\* A hub that does not expose batch atomicity applies update_info_dict one
\* key at a time, each key atomically; the call is done with its last key.
DictKey(t) ==
    /\ threads[t].busy
    /\ Head(threads[t].todo).op = "update_info_dict"
    /\ LET args == Head(threads[t].todo).args
       IN  \E key \in DOMAIN args :
             /\ info' = update_info(Hub, key, args[key]).info
             /\ completed' = [k \in DOMAIN completed \cup {key} |->
                                IF k = key THEN args[key] ELSE completed[k]]
             /\ threads' =
                    IF DOMAIN args = {key} THEN Done(t)
                    ELSE [threads EXCEPT
                            ![t].todo = << [Head(@) EXCEPT
                                              !.args = [k \in DOMAIN args \ {key} |-> args[k]]] >>
                                        \o Tail(@)]
    /\ UNCHANGED <<runner, scalars, last, hvars, appended>>

(***************************************************************************)
(* The lifecycle of a run: the runner calls the hook's callbacks in the    *)
(* order before_run, before_train, then per epoch before_train_epoch and   *)
(* per iteration before_train_iter, the train step, after_train_iter;      *)
(* validation epochs between training epochs, a test epoch at the end.     *)
(* An exception of a callback ends the run, and so can the runner itself   *)
(* at any point.  `phase` holds the position, and what the run has seen:   *)
(*   iters             the iterations completed                            *)
(*   groups, keys      the learning-rate groups and the outputs keys of    *)
(*                     the first iteration                                 *)
(*   uniform           every iteration had these groups and these keys     *)
(*   iter_at, epoch_at runner.iter / runner.epoch at the latest callback   *)
(*                     that publishes it                                   *)
(***************************************************************************)
\* Where the run goes after the callback just made: on, or to its end.
After(at) == IF last'.err = "none" THEN at ELSE "aborted"

RunBeforeRun ==
    /\ phase.at = "start"
    /\ BeforeRun
    /\ phase' = [phase EXCEPT !.at = "run"]
    /\ UNCHANGED <<hooks, pending, seen, tvars>>

RunBeforeTrain ==
    /\ phase.at = "run"
    /\ BeforeTrain
    /\ phase' = [phase EXCEPT !.at = After("train"),
                              !.iter_at = <<runner.iter>>,
                              !.epoch_at = <<runner.epoch>>]
    /\ UNCHANGED <<hooks, pending, seen, tvars>>

RunBeforeTrainEpoch ==
    /\ phase.at \in {"train", "epoch_end"}
    /\ BeforeTrainEpoch
    /\ phase' = [phase EXCEPT !.at = "epoch", !.epoch_at = <<runner.epoch>>]
    /\ UNCHANGED <<hooks, pending, seen, tvars>>

RunBeforeTrainIter ==
    /\ phase.at = "epoch"
    /\ BeforeTrainIter
    /\ phase' = [phase EXCEPT !.at = After("iter"), !.iter_at = <<runner.iter>>]
    /\ UNCHANGED <<hooks, pending, seen, tvars>>

\* after_train_iter completes the iteration before_train_iter began.
RunAfterTrainIter ==
    /\ phase.at = "iter"
    /\ AfterTrainIter
    /\ LET G == Keys(last.lr_dict.items)
           K == Keys(last'.payload.items)
           first == phase.iters = 0
       IN  phase' = [phase EXCEPT
                       !.at = "step",
                       !.iters = @ + 1,
                       !.groups = IF first THEN G ELSE @,
                       !.keys = IF first THEN K ELSE @,
                       !.uniform = /\ @
                                   /\ last'.payload.type = "dict"
                                   /\ first \/ (G = phase.groups /\ K = phase.keys)]
    /\ UNCHANGED <<hooks, pending, seen, tvars>>

\* The train loop counts the iteration, and the epoch when its data is used up.
StepIter ==
    /\ phase.at = "step"
    /\ NextIter
    /\ phase' = [phase EXCEPT !.at = "epoch"]
    /\ UNCHANGED <<hooks, pending, seen, tvars>>

EndEpoch ==
    /\ phase.at = "epoch"
    /\ NextEpoch
    /\ phase' = [phase EXCEPT !.at = "epoch_end"]
    /\ UNCHANGED <<hooks, pending, seen, tvars>>

RunAfterValEpoch ==
    /\ phase.at \in {"run", "epoch_end"}
    /\ AfterValEpoch
    /\ UNCHANGED <<hooks, pending, seen, phase, tvars>>

RunAfterTestEpoch ==
    /\ phase.at \in {"run", "epoch_end"}
    /\ AfterTestEpoch
    /\ phase' = [phase EXCEPT !.at = "end"]
    /\ UNCHANGED <<hooks, pending, seen, tvars>>

\* The runner aborts the run between two callbacks.
Abort ==
    /\ phase.at \notin {"end", "aborted"}
    /\ phase' = [phase EXCEPT !.at = "aborted"]
    /\ last' = Idle("abort")
    /\ UNCHANGED <<runner, info, scalars, hooks, pending, seen, tvars>>

(***************************************************************************)
(* Specifications                                                          *)
(***************************************************************************)

Init ==
    /\ runner \in Runners
    /\ info = << >>
    /\ scalars = << >>
    /\ last = Idle("init")
    /\ hooks = register_hook(<<>>, RuntimeInfoHook)
    /\ pending = NoCall
    /\ seen = NothingSeen
    /\ threads = NoThreads
    /\ completed = << >>
    /\ appended = << >>
    /\ phase = NoRun

\* The callbacks that run once per run or once per epoch.
NextInfo ==
    \/ BeforeRun /\ UNCHANGED <<hvars, tvars>>
    \/ BeforeTrain /\ UNCHANGED <<hvars, tvars>>
    \/ BeforeTrainEpoch /\ UNCHANGED <<hvars, tvars>>
    \/ AfterValEpoch /\ UNCHANGED <<hvars, tvars>>
    \/ NextEpoch /\ UNCHANGED <<hvars, tvars>>
    \/ NextIter /\ UNCHANGED <<hvars, tvars>>

SpecInfo == Init /\ [][NextInfo]_vars

\* The callbacks that run once per iteration or carry a payload.
NextScalars ==
    \/ BeforeTrainIter /\ UNCHANGED <<hvars, tvars>>
    \/ AfterTrainIter /\ UNCHANGED <<hvars, tvars>>
    \/ AfterValEpoch /\ UNCHANGED <<hvars, tvars>>
    \/ AfterTestEpoch /\ UNCHANGED <<hvars, tvars>>

InitScalars == Init /\ runner.epoch = 0

SpecScalars == InitScalars /\ [][NextScalars]_vars

\* The runner calling the hooks of the training points in priority order: the
\* RuntimeInfoHook and one observer, registered in either order.
InitDispatch ==
    /\ runner \in Runners
    /\ info = << >>
    /\ scalars = << >>
    /\ last = Idle("init")
    /\ \E p \in ObserverPriorities :
          hooks \in { register_hook(register_hook(<<>>, RuntimeInfoHook), Observer(p)),
                      register_hook(register_hook(<<>>, Observer(p)), RuntimeInfoHook) }
    /\ pending = NoCall
    /\ seen = NothingSeen
    /\ threads = NoThreads
    /\ completed = << >>
    /\ appended = << >>
    /\ phase = NoRun

NextDispatch ==
    \/ CallHook
    \/ CallRuntimeInfoHook
    \/ CallObserver
    \/ EndCallHook
    \/ pending = NoCall /\ NextEpoch /\ UNCHANGED <<hvars, tvars>>
    \/ pending = NoCall /\ NextIter /\ UNCHANGED <<hvars, tvars>>

SpecDispatch == InitDispatch /\ [][NextDispatch]_vars

\* The hook's callbacks writing runtime info while another thread writes too.
NextHub ==
    \/ EnterCallback
    \/ OtherCall
    \/ \E t \in Threads : BeginUpdate(t)
    \/ \E t \in Threads : CompleteUpdate(t)
    \/ threads["runner"].todo = <<>> /\ NextEpoch /\ UNCHANGED <<hvars, tvars>>
    \/ threads["runner"].todo = <<>> /\ NextIter /\ UNCHANGED <<hvars, tvars>>

SpecHub == Init /\ [][NextHub]_vars

\* A run from its start to its end or its abort.
NextRun ==
    \/ RunBeforeRun
    \/ RunBeforeTrain
    \/ RunBeforeTrainEpoch
    \/ RunBeforeTrainIter
    \/ RunAfterTrainIter
    \/ StepIter
    \/ EndEpoch
    \/ RunAfterValEpoch
    \/ RunAfterTestEpoch
    \/ Abort

SpecRun == Init /\ [][NextRun]_vars

\* The hub under the hook's logging callbacks and a second writer of scalars.
NextLog ==
    \/ EnterLogging
    \/ OtherScalar
    \/ \E t \in Threads : BeginUpdate(t)
    \/ \E t \in Threads : CompleteUpdate(t)
    \/ \E t \in Threads : CompleteScalar(t)

SpecLog == InitScalars /\ [][NextLog]_vars

\* The hub under before_run and a second writer of info, with readers at
\* every state.
NextBatch ==
    \/ EnterBeforeRun
    \/ OtherCall
    \/ \E t \in Threads : BeginUpdate(t)
    \/ \E t \in Threads : CompleteUpdate(t)
    \/ \E t \in Threads : CompleteDict(t)
    \/ \E t \in Threads : DictKey(t)

SpecBatch == Init /\ [][NextBatch]_vars

(***************************************************************************)
(* Properties                                                              *)
(***************************************************************************)
\* The contract error of the learning-rate check is the failed assertion.
ContractViolation == "AssertionError"

\* The history under a key, empty when the key was never written.
Hist(S, key) == IF key \in DOMAIN S THEN S[key] ELSE <<>>

Entry(value) == [value |-> value, step |-> None]

\* The value a dict given by its items holds under a key.
Lookup(items, key) ==
    LET i == CHOOSE j \in 1..Len(items) : items[j][1] = key
    IN  items[i][2]

\* S2 is S1 with one entry (d[k], None) appended under prefix + k for every
\* key k of the dict d, and nothing else.
AppendedOncePerKey(S1, S2, prefix, items, ValueOf(_)) ==
    /\ DOMAIN S2 = DOMAIN S1 \cup { prefix \o k : k \in Keys(items) }
    /\ \A k \in Keys(items) :
          S2[prefix \o k] = Append(Hist(S1, prefix \o k), Entry(ValueOf(Lookup(items, k))))
    /\ \A key \in DOMAIN S2 \ { prefix \o k : k \in Keys(items) } :
          S2[key] = S1[key]

Index0(lr) == lr[1]
Itself(v) == v

\* get_lr() returned a dict of non-empty lists.
IsLrMapping(lr_dict) ==
    /\ lr_dict.type = "dict"
    /\ \A i \in 1..Len(lr_dict.items) : Len(lr_dict.items[i][2]) > 0

\* C1: when before_train_iter runs and get_lr() returns a mapping from names
\* to non-empty lists, every name of the mapping gains exactly one entry at
\* the end of the history "train/" + name, with the list's index-0 element as
\* value and step None, and no other history gains an entry.
C1_LrAppendedOnce ==
    [][ (last'.name = "before_train_iter" /\ IsLrMapping(last'.lr_dict))
        => AppendedOncePerKey(scalars, scalars', "train/", last'.lr_dict.items, Index0)
      ]_vars

C1_Witness ==
    /\ last.name = "before_train_iter"
    /\ last.err = "none"
    /\ Len(last.lr_dict.items) = 2
    /\ \E i \in 1..2 : Len(last.lr_dict.items[i][2]) = 2
    /\ \E k \in DOMAIN scalars : Len(scalars[k]) = 1

\* C2: when before_train_iter runs and get_lr() returns something that is not
\* a mapping, the callback raises the contract error and no scalar history
\* gains, loses or changes an entry.
C2_NotAMapping ==
    [][ (last'.name = "before_train_iter" /\ last'.lr_dict.type # "dict")
        => (last'.err = ContractViolation /\ scalars' = scalars)
      ]_vars

C2_Witness ==
    /\ last.name = "before_train_iter"
    /\ last.lr_dict.type = "list"
    /\ last.err = ContractViolation
    /\ scalars # << >>

\* C3: after_train_iter with outputs=None, after_val_epoch with metrics=None
\* and after_test_epoch with metrics=None raise nothing and leave every info
\* entry and every scalar history unchanged.
C3_NonePayloadNoOp ==
    [][ ( /\ last'.name \in {"after_train_iter", "after_val_epoch", "after_test_epoch"}
          /\ last'.payload.type = "None" )
        => (last'.err = "none" /\ last'.calls = <<>> /\ info' = info /\ scalars' = scalars)
      ]_vars

C3_Witness ==
    /\ last.name = "after_test_epoch"
    /\ last.payload.type = "None"
    /\ info # << >>
    /\ scalars # << >>

PrefixOf(name) ==
    CASE name = "after_train_iter" -> "train/"
      [] name = "after_val_epoch" -> "val/"
      [] name = "after_test_epoch" -> "test/"

\* C4: when after_train_iter, after_val_epoch or after_test_epoch runs with a
\* mapping m, every key k of m gains exactly one entry (m[k], None) at the end
\* of the history "train/" + k, "val/" + k or "test/" + k respectively, and
\* nothing else changes: no info entry and no other scalar history.
C4_PayloadAppendedOnce ==
    [][ ( /\ last'.name \in {"after_train_iter", "after_val_epoch", "after_test_epoch"}
          /\ last'.payload.type = "dict" )
        => /\ AppendedOncePerKey(scalars, scalars', PrefixOf(last'.name),
                                 last'.payload.items, Itself)
           /\ info' = info
           /\ \A i \in 1..Len(last'.calls) : last'.calls[i].op = "update_scalar"
      ]_vars

C4_Witness ==
    /\ last.name = "after_test_epoch"
    /\ Len(last.payload.items) = 1
    /\ Cardinality(DOMAIN scalars) = 2
    /\ \E k \in DOMAIN scalars : Len(scalars[k]) = 1 /\ k \notin {"test/lr", "test/loss"}
    /\ info # << >>

RunKeys == {"cfg", "seed", "experiment_name", "mmengine_version"}

\* C5: after before_run, get_info of cfg, seed and experiment_name return the
\* runner's configuration text, seed and experiment name, a version string is
\* readable as info, the four entries were written by exactly one
\* update_info_dict call, and before_run wrote no scalar and no other info key.
C5_BeforeRun ==
    [][ last'.name = "before_run"
        => /\ get_info(info', "cfg").value = <<runner.cfg>>
           /\ get_info(info', "seed").value = <<runner.seed>>
           /\ get_info(info', "experiment_name").value = <<runner.experiment_name>>
           /\ get_info(info', "mmengine_version").err = "none"
           /\ \E h \in GitHashes : info'["mmengine_version"] = mmengine_version \o h
           /\ last'.err = "none"
           /\ Len(last'.calls) = 1
           /\ last'.calls[1].op = "update_info_dict"
           /\ DOMAIN last'.calls[1].args = RunKeys
           /\ scalars' = scalars
           /\ DOMAIN info' = DOMAIN info \cup RunKeys
           /\ \A k \in DOMAIN info \ RunKeys : info'[k] = info[k]
      ]_vars

C5_Witness ==
    /\ last.name = "before_run"
    /\ info["seed"] = 42 /\ info["experiment_name"] = "exp1" /\ info["cfg"] = "model=resnet"
    /\ "epoch" \in DOMAIN info
    /\ scalars # << >>

\* C6: after before_train, the info entries epoch, iter, max_epochs and
\* max_iters equal the runner's epoch, iter, max_epochs and max_iters at the
\* call, also for a resumed run whose counters are above zero.
C6_BeforeTrainCounters ==
    last.name = "before_train"
    => /\ get_info(info, "epoch").value = <<runner.epoch>>
       /\ get_info(info, "iter").value = <<runner.iter>>
       /\ get_info(info, "max_epochs").value = <<runner.max_epochs>>
       /\ get_info(info, "max_iters").value = <<runner.max_iters>>

C6_Witness ==
    /\ last.name = "before_train"
    /\ last.err = "none"
    /\ runner.epoch > 0 /\ runner.iter > 0
    /\ info["epoch"] = runner.epoch /\ info["iter"] = runner.iter

\* The dataset exposes metadata: it has the attribute the hook publishes.
ExposesMetadata(dataset) == hasattr(dataset, "metainfo")

\* C7: in before_train, a dataset that exposes metadata gets it written as
\* info dataset_meta; a dataset that does not makes before_train finish
\* without error and without a dataset_meta write; never an error.
C7_DatasetMeta ==
    last.name = "before_train"
    => /\ last.err = "none"
       /\ IF ExposesMetadata(last.dataset)
          THEN /\ last.calls[Len(last.calls)].op = "update_info"
               /\ DOMAIN last.calls[Len(last.calls)].args = {"dataset_meta"}
               /\ get_info(info, "dataset_meta").value = << last.dataset["metainfo"] >>
          ELSE \A i \in 1..Len(last.calls) : "dataset_meta" \notin DOMAIN last.calls[i].args

\* C8: a second before_train_epoch right after a first one, the runner's epoch
\* being the same, leaves info epoch at the value the first call gave it and
\* changes no other entry of the registry.
C8_EpochIdempotent ==
    [][ (last'.name = "before_train_epoch" /\ last'.repeat)
        => /\ get_info(info', "epoch") = get_info(info, "epoch")
           /\ get_info(info', "epoch").value = <<runner.epoch>>
           /\ info' = info
           /\ scalars' = scalars
      ]_vars

C8_Witness ==
    /\ last.name = "before_train_epoch"
    /\ last.repeat
    /\ runner.epoch > 0
    /\ Cardinality(DOMAIN info) > 1
    /\ scalars # << >>

\* The observer is registered with a priority lower than the RuntimeInfoHook's.
ObserverLower ==
    \E i, j \in 1..Len(hooks) :
        /\ hooks[i].name = "RuntimeInfoHook"
        /\ hooks[j].name = "Observer"
        /\ get_priority(hooks[j].priority) > get_priority(hooks[i].priority)

Waiting(name) == \E i \in 1..Len(pending.queue) : pending.queue[i].name = name

\* The RuntimeInfoHook's callback for the point being called has returned.
BridgeDone ==
    /\ ~Waiting("RuntimeInfoHook")
    /\ last.name = pending.point
    /\ last.err = "none"

\* The observer read, for the point being called, what the hook published.
SeesPublished ==
    /\ seen.point = pending.point
    /\ pending.point \in {"before_train", "before_train_epoch"}
          => seen.epoch.value = <<runner.epoch>>
    /\ pending.point \in {"before_train", "before_train_iter"}
          => seen.iter.value = <<runner.iter>>
    /\ pending.point = "before_train"
          => /\ seen.max_epochs.value = <<runner.max_epochs>>
             /\ seen.max_iters.value = <<runner.max_iters>>

\* C9: at before_train, before_train_epoch and before_train_iter, with an
\* observer of lower priority registered, the RuntimeInfoHook's callback has
\* returned before the observer's callback starts, and the observer reads the
\* epoch, iter, max_epochs and max_iters the hook published for that point.
C9_BridgeFirst ==
    (ObserverLower /\ pending.point \in Points)
    => /\ (pending.queue # <<>> /\ Head(pending.queue).name = "Observer") => BridgeDone
       /\ ~Waiting("Observer") => (BridgeDone /\ SeesPublished)

C9_Witness ==
    /\ ObserverLower
    /\ pending.point = "before_train_iter"
    /\ pending.queue = <<>>
    /\ runner.iter > 0
    /\ seen.point = "before_train_iter"
    /\ seen.iter.value = <<runner.iter>>

\* C10: get_info(key) returns the value of the update_info call completed
\* last on the key, for every key and every interleaving of the two threads:
\* no completed update is lost, whatever the other thread writes meanwhile.
C10_LastWriteWins ==
    /\ DOMAIN info = DOMAIN completed
    /\ \A key \in DOMAIN completed : get_info(info, key).value = << completed[key] >>

C10_Witness ==
    /\ threads["runner"].todo # <<>>
    /\ threads["other"].busy
    /\ {"eta", "epoch", "iter", "max_iters"} \subseteq DOMAIN info
    /\ info["epoch"] > 0
    /\ info["iter"] # runner.iter

\* C11: for any sequence of update_scalar calls on one key, made by the hook's
\* callbacks and by another thread, get_scalar(key) returns exactly the
\* (value, step) pairs of the completed calls, one per call, in the order the
\* calls completed: none lost, none duplicated, none reordered.
C11_ScalarHistory ==
    \A key \in DOMAIN scalars \cup DOMAIN appended :
        /\ key \in DOMAIN appended
        /\ get_scalar(scalars, key) = [err |-> "none", value |-> appended[key]]

\* A history of two entries, the other thread's call completed before the
\* hook's on the same key.
C11_Witness ==
    \E key \in DOMAIN appended :
        /\ Len(appended[key]) = 2
        /\ appended[key][1].step = <<7>>
        /\ appended[key][2].step = None
        /\ get_scalar(scalars, key).value = appended[key]

\* The keys a consumer reads, written or not.
ReadKeys == {"iter", "epoch", "train/lr", "train/loss", "val/lr"}

\* A read fails with NotFoundError exactly on the keys no completed write
\* named: C the info keys written so far, A the scalar keys.
ReadsFollowWrites(I, S, C, A) ==
    \A key \in ReadKeys :
        /\ get_info(I, key).err = IF key \in C THEN "none" ELSE "NotFoundError"
        /\ get_scalar(S, key).err = IF key \in A THEN "none" ELSE "NotFoundError"

\* C12: get_info / get_scalar on a key that was never written fails with
\* NotFoundError, and once a write to the key has completed every later read
\* of it succeeds, in every state any sequence of hub operations reaches.
C12_NotFoundUntilWritten ==
    [][ /\ ReadsFollowWrites(info, scalars, DOMAIN completed, DOMAIN appended)
        /\ ReadsFollowWrites(info', scalars', DOMAIN completed', DOMAIN appended')
        /\ \A key \in ReadKeys :
              /\ get_info(info, key).err = "none" => get_info(info', key).err = "none"
              /\ get_scalar(scalars, key).err = "none"
                    => get_scalar(scalars', key).err = "none" ]_vars

\* Reads of written keys succeed next to reads of unwritten keys that fail.
C12_Witness ==
    /\ get_info(info, "iter").err = "none"
    /\ get_info(info, "epoch").err = "NotFoundError"
    /\ get_scalar(scalars, "train/lr").err = "none"
    /\ get_scalar(scalars, "train/loss").err = "NotFoundError"
    /\ "iter" \in DOMAIN completed
    /\ "train/lr" \in DOMAIN appended

\* The before_run entries a reader finds, and whether the runner's thread is
\* inside the update_info_dict call of before_run.
RunKeysRead == { k \in RunKeys : get_info(info, k).err = "none" }
InBatch ==
    /\ threads["runner"].busy
    /\ Head(threads["runner"].todo).op = "update_info_dict"

\* C14 as stated: on a registry that held none of the four before_run entries,
\* a read concurrent with before_run sees none of the four or all four, never
\* a partial subset.
C14_NoneOrAll == RunKeysRead \in {{}, RunKeys}

\* C14: a read concurrent with before_run never sees a half-updated entry:
\* each of the four keys is absent or holds the value before_run gave it; a
\* read sees a partial subset of the four only while the update_info_dict
\* call is in progress on a hub that applies the batch key by key; once
\* before_run has returned every read sees all four.
C14_EntriesAtomic ==
    /\ \A k \in RunKeysRead :
          \E g \in GitHashes : info[k] = before_run(EmptyHub, runner, g).hub.info[k]
    /\ RunKeysRead \notin {{}, RunKeys} => InBatch
    /\ (last.name = "before_run" /\ threads["runner"].todo = <<>>)
          => RunKeysRead = RunKeys

\* A reader finds cfg and seed but not yet experiment_name and the version,
\* while before_run's batch is being applied.
C14_Witness ==
    /\ RunKeysRead = {"cfg", "seed"}
    /\ InBatch
    /\ last.name = "before_run"

\* s is a prefix of t.
IsPrefix(s, t) == Len(s) <= Len(t) /\ SubSeq(t, 1, Len(s)) = s

\* C13: across the callbacks of a run, also one the runner aborts at any
\* point and one ended by the contract error of before_train_iter, the hook
\* never removes a key and never removes or rewrites a scalar entry: every
\* info key and every scalar key readable before a step is readable after
\* it, and every scalar history has its earlier history as a prefix.
C13_NothingRemoved ==
    [][ /\ \A k \in DOMAIN info : get_info(info', k).err = "none"
        /\ \A k \in DOMAIN scalars :
              /\ get_scalar(scalars', k).err = "none"
              /\ IsPrefix(scalars[k], get_scalar(scalars', k).value) ]_vars

\* A run ended by the contract error, its earlier entries still there.
C13_Witness ==
    /\ phase.at = "aborted"
    /\ last.name = "before_train_iter"
    /\ last.err = ContractViolation
    /\ RunKeys \subseteq DOMAIN info
    /\ \E k \in DOMAIN scalars : scalars[k] # <<>>

\* The keys of the info namespace, and the scalar keys under the three
\* prefixes for the names a run can use.
InfoKeys == RunKeys \cup {"epoch", "iter", "max_epochs", "max_iters", "dataset_meta"}
Prefixed == { prefix \o name : prefix \in {"train/", "val/", "test/"}, name \in Names }

\* C15: in every state a run reaches, whatever the learning-rate group names
\* and the outputs and metrics keys, no key is written both as info and as
\* scalar: info is written only under cfg, seed, experiment_name, the version
\* key, epoch, iter, max_epochs, max_iters and dataset_meta, scalars only
\* under keys that begin with "train/", "val/" or "test/".
C15_DisjointNamespaces ==
    /\ DOMAIN info \subseteq InfoKeys
    /\ DOMAIN scalars \subseteq Prefixed
    /\ DOMAIN info \cap DOMAIN scalars = {}
    /\ \A i \in 1..Len(last.calls) :
          IF last.calls[i].op = "update_scalar"
          THEN DOMAIN last.calls[i].args \subseteq Prefixed
          ELSE DOMAIN last.calls[i].args \subseteq InfoKeys

\* All nine info keys written, and scalars under two of the prefixes.
C15_Witness ==
    /\ DOMAIN info = InfoKeys
    /\ {"train/lr", "val/lr"} \subseteq DOMAIN scalars
    /\ last.name = "after_val_epoch"

\* C16: for a run whose phases fire in lifecycle order, in every state after
\* before_train, get_info("iter") is runner.iter as it was at the latest
\* before_train or before_train_iter, and get_info("epoch") is runner.epoch
\* as it was at the latest before_train or before_train_epoch: no other
\* callback and no advance of the runner's counters changes either entry.
C16_CountersAsPublished ==
    /\ phase.iter_at # None
          => get_info(info, "iter") = [err |-> "none", value |-> phase.iter_at]
    /\ phase.epoch_at # None
          => get_info(info, "epoch") = [err |-> "none", value |-> phase.epoch_at]

\* After an iteration and an epoch the runner's counters have moved on and
\* the entries still hold what was published; a validation epoch has run.
C16_Witness ==
    /\ phase.iter_at # None /\ phase.epoch_at # None
    /\ info["iter"] # runner.iter
    /\ info["epoch"] # runner.epoch
    /\ phase.iters > 0
    /\ last.name = "after_val_epoch"

\* C17: when before_train_iter fails the contract check, the hub is not left
\* as it was: the info entry iter has been overwritten with runner.iter
\* before the check, and this update_info call is the only change the failed
\* call makes -- no other info entry and no scalar history changes.
C17_IterWrittenBeforeCheck ==
    [][ (last'.name = "before_train_iter" /\ last'.err = ContractViolation)
        => /\ last'.calls = << Call("update_info", [k \in {"iter"} |-> runner.iter]) >>
           /\ get_info(info', "iter").value = <<runner.iter>>
           /\ DOMAIN info' = DOMAIN info \cup {"iter"}
           /\ \A k \in DOMAIN info \ {"iter"} : info'[k] = info[k]
           /\ scalars' = scalars
      ]_vars

\* The second iteration of a run fails the check: iter, published as 0 by the
\* first, reads 1 after the failed call.
C17_Witness ==
    /\ last.name = "before_train_iter"
    /\ last.err = ContractViolation
    /\ phase.iters = 1
    /\ runner.iter = 1
    /\ get_info(info, "iter").value = <<1>>
    /\ phase.at = "aborted"

\* The groups get_lr() returned ahead of the first one with an empty list.
RECURSIVE BeforeEmpty(_)
BeforeEmpty(items) ==
    IF items = <<>> \/ Head(items)[2] = <<>> THEN <<>>
    ELSE <<Head(items)>> \o BeforeEmpty(Tail(items))

\* C18: before_train_iter is not all-or-nothing: when get_lr() returns a
\* mapping in which some group's list is empty, the callback fails with an
\* error that is not the contract error, and every group ahead of that one in
\* the mapping's order has gained its entry, which stays; the groups from the
\* empty one on gain nothing.
C18_PartialOnEmptyGroup ==
    [][ ( /\ last'.name = "before_train_iter"
          /\ last'.lr_dict.type = "dict"
          /\ ~IsLrMapping(last'.lr_dict) )
        => /\ last'.err = "IndexError"
           /\ last'.err # ContractViolation
           /\ AppendedOncePerKey(scalars, scalars', "train/",
                                 BeforeEmpty(last'.lr_dict.items), Index0)
           /\ get_info(info', "iter").value = <<runner.iter>>
      ]_vars

\* The first group has a learning rate and the second has none: the first
\* group's entry is there after the failed call.
C18_Witness ==
    /\ last.name = "before_train_iter"
    /\ last.err = "IndexError"
    /\ Len(last.lr_dict.items) = 2
    /\ last.lr_dict.items[1][2] # <<>>
    /\ last.lr_dict.items[2][2] = <<>>
    /\ LET h == Hist(scalars, "train/" \o last.lr_dict.items[1][1])
       IN  h # <<>> /\ h[Len(h)] = Entry(last.lr_dict.items[1][2][1])

\* C19: learning rates and outputs share the keys under "train/".  When a
\* group name n is also an outputs key, the iteration (before_train_iter and
\* then after_train_iter) appends two entries to the history "train/" + n,
\* the learning rate first and the output second.  In a run whose iterations
\* all have the same groups and the same outputs keys, after k completed
\* iterations the history of a name that is a group or a key but not both
\* holds exactly k entries, that of a name that is both holds 2k.
C19_SharedTrainKeys ==
    [][ phase'.iters = phase.iters + 1
        => LET lrs == last.lr_dict.items
               outs == last'.payload.items
           IN  /\ \A n \in Keys(lrs) \cap Keys(outs) :
                     LET h == Hist(scalars, "train/" \o n)
                         h2 == Hist(scalars', "train/" \o n)
                     IN  /\ h # <<>>
                         /\ h[Len(h)] = Entry(Lookup(lrs, n)[1])
                         /\ h2 = Append(h, Entry(Lookup(outs, n)))
               /\ phase'.uniform
                     => \A n \in phase'.groups \cup phase'.keys :
                           Len(Hist(scalars', "train/" \o n))
                             = IF n \in phase'.groups \cap phase'.keys
                               THEN 2 * phase'.iters ELSE phase'.iters
      ]_vars

\* One iteration with "lr" as a group and as an outputs key: two entries
\* under "train/lr", the learning rate and then the output.
C19_Witness ==
    /\ phase.at = "step"
    /\ phase.iters = 1
    /\ "lr" \in phase.groups \cap phase.keys
    /\ last.name = "after_train_iter"
    /\ Len(Hist(scalars, "train/lr")) = 2
    /\ scalars["train/lr"][2] = Entry(Lookup(last.payload.items, "lr"))

====
